---- MODULE Spec2Model ----
(***************************************************************************)
(* Model of src/index.js: a facade object (`instance`) around one          *)
(* process-wide IPFS node (`ipfsNode`).  The facade keeps a handle         *)
(* (`ipfsInstance`) that the node's 'ready' handler sets, guards every     *)
(* method with validateIPFSConnected, forwards start/stop/isOnline and     *)
(* dag.put, and registers listeners on the node's lifecycle events.        *)
(*                                                                         *)
(* The wrapped node is an external library.  It is modelled as the         *)
(* environment: it boots (init, start, ready) or fails with an error,      *)
(* emits events to its listeners synchronously in registration order, and  *)
(* completes every dag.put it was handed exactly once.                     *)
(***************************************************************************)
EXTENDS Integers, Sequences, FiniteSets

(* ---------------------------- bounds ----------------------------------- *)
\* number of facade method invocations in one behaviour
MaxOps == 2
\* number of events the node emits in one behaviour ('ready' not counted)
MaxEmits == 4
\* largest argument count putObjectSync is called with
MaxArity == 4

(* ------------------------- JavaScript values --------------------------- *)
Undefined == [type |-> "undefined"]
Null == [type |-> "null"]
DagNode(n) == [type |-> "node", v |-> n]
Fn(n) == [type |-> "function", v |-> n]
Cid(n) == [type |-> "cid", v |-> n]
Err(n) == [type |-> "error", v |-> n]
Options(f, h) == [type |-> "object", format |-> f, hashAlg |-> h]

Nodes == {DagNode("N1")}
Callbacks == {Fn("cb1"), Fn("cb2")}
\* the completion callback a caller passes to putObjectSync
PutCallbacks == {Fn("done")}
\* options a caller supplies: one that differs from the default in both fields
Configs == {Options("dag-pb", "sha2-256")}
NodeErrors == {Err("E1")}
Cids == {Cid("Qm1")}

\* const DEFAULT_DAG_CONFIG = { format: 'dag-cbor', hashAlg: 'sha3-512' }
DEFAULT_DAG_CONFIG == Options("dag-cbor", "sha3-512")

\* messages of the errors the facade itself throws
NotReady == "IPFS is not connected yet. Call client.getInstance() first!"
NoObject == "You have to provide object"
\* thrown by the runtime when something that is not a function is called
TypeError == "TypeError: not a function"
NoError == "none"

\* the keys of the object literal `instance`
InstanceMethods ==
    {"start", "stop", "isOnline", "putObject", "putObjectSync",
     "onError", "onInit", "onStart", "onStop"}

\* the event names the facade registers listeners for
Events == {"error", "init", "start", "stop"}
ListenerOps == {"onError", "onInit", "onStart", "onStop"}

(* ------------------------------ state ---------------------------------- *)
VARIABLES
    nodeState,     \* the wrapped node: "new", "inited", "booted", "failed",
                   \* and once ready "online", "stopping", "offline", "starting"
    ipfsInstance,  \* the closure variable `let ipfsInstance`: Undefined or IpfsNode
    promiseState,  \* the exported promise: "pending" or "resolved"
    held,          \* TRUE once a caller's `then` received the facade object
    listeners,     \* the node's listeners per event, in registration order
    emitLog,       \* history: every event the node emitted, in order
    cbLog,         \* history: every invocation of a caller's listener callback
    nodeCalls,     \* history: every method call forwarded to the node, in order
    puts,          \* every dag.put handed to the node, with its completion
    outcome,       \* what the last facade invocation did for its caller
    opCount,       \* number of facade invocations so far
    direct         \* TRUE when the methods of `instance` are invoked on the
                   \* object itself instead of through the exported promise

vars == <<nodeState, ipfsInstance, promiseState, held, listeners, emitLog,
          cbLog, nodeCalls, puts, outcome, opCount, direct>>

\* const ipfsNode = new IPFS(): the one process-wide node object
IpfsNode == [type |-> "ipfs"]

(* --------------------------- pure helpers ------------------------------ *)
\* a guard that never throws
validateNothing(ipfs) == TRUE

\* validateIPFSConnected(ipfs): TRUE when it returns, FALSE when it throws
validateIPFSConnected(ipfs) == ipfs # Undefined

\* arguments[i] of a call: undefined past the end
Arg(args, i) == IF i <= Len(args) THEN args[i] ELSE Undefined

\* putObject(dagNode, options = DEFAULT_DAG_CONFIG): a default parameter
\* takes its default when the argument is missing or undefined
PutObjectParams(args) ==
    [obj    |-> Arg(args, 1),
     config |-> IF Arg(args, 2) = Undefined THEN DEFAULT_DAG_CONFIG
                ELSE Arg(args, 2)]

\* the three-argument block without its `config = arguments[1]`
PutObjectSyncParamsNoConfig(args) ==
    IF Len(args) = 3
    THEN [obj |-> args[1], config |-> DEFAULT_DAG_CONFIG, callback |-> args[3]]
    ELSE IF Len(args) = 2
    THEN [obj |-> args[1], config |-> DEFAULT_DAG_CONFIG, callback |-> args[2]]
    ELSE [obj |-> Undefined, config |-> DEFAULT_DAG_CONFIG, callback |-> Undefined]

\* putObjectSync: `let obj, config = DEFAULT_DAG_CONFIG, callback;` then the
\* two `if (arguments.length === ...)` blocks
PutObjectSyncParams(args) ==
    IF Len(args) = 3
    THEN [obj |-> args[1], config |-> args[2], callback |-> args[3]]
    ELSE IF Len(args) = 2
    THEN [obj |-> args[1], config |-> DEFAULT_DAG_CONFIG, callback |-> args[2]]
    ELSE [obj |-> Undefined, config |-> DEFAULT_DAG_CONFIG, callback |-> Undefined]

\* onStop listening on 'start', as a copy of onStart left unedited would
EventOfCopied(op) ==
    CASE op = "onError" -> "error"
      [] op = "onInit"  -> "init"
      [] op = "onStart" -> "start"
      [] op = "onStop"  -> "start"

\* the event name each onX method passes to ipfsInstance.on
EventOf(op) ==
    CASE op = "onError" -> "error"
      [] op = "onInit"  -> "init"
      [] op = "onStart" -> "start"
      [] op = "onStop"  -> "stop"

\* what the listener the facade registers passes to the caller's callback:
\* onError's arrow function calls callback(err), the others call callback()
ListenerArg(op, val) == IF op = "onError" THEN val ELSE Undefined

\* a single listener slot per event: a registration replaces the earlier one
SetListener(ls, l) == <<l>>

\* ipfsInstance.on(event, listener): an emitter appends the listener
AddListener(ls, l) == Append(ls, l)

\* a listener that drops the error: callback(null, cid)
SyncReportNoError(err, cid) == [err |-> Null, cid |-> cid]

\* (err, cid) => { callback(err, cid); }: what the caller's callback receives
SyncReport(err, cid) == [err |-> err, cid |-> cid]

\* `return await ipfsInstance.dag.put(...)`: how the returned promise settles
AsyncReport(err, cid) == [err |-> err, cid |-> cid]

\* the results the node can complete a dag.put with
PutResults ==
    {[err |-> Null, cid |-> c] : c \in Cids} \cup
    {[err |-> e, cid |-> Undefined] : e \in NodeErrors}

\* argument lists putObjectSync is called with, one shape per argument count:
\* (), (node), (node, cb), (node, config, cb), (node, config, undefined.., cb)
SyncArgLists ==
    {<<>>} \cup
    {<<n>> : n \in Nodes} \cup
    {<<n, cb>> : n \in Nodes, cb \in PutCallbacks} \cup
    UNION {{<<n, c>> \o [i \in 1..(k - 3) |-> Undefined] \o <<cb>> :
              n \in Nodes, c \in Configs, cb \in PutCallbacks} : k \in 3..MaxArity}

\* argument lists putObject is called with
AsyncArgLists ==
    {<<n>> : n \in Nodes} \cup
    {<<n, c>> : n \in Nodes, c \in Configs \cup {Undefined}}

(* ------------------------------- Init ---------------------------------- *)
\* module load: `new IPFS()`, the closure with ipfsInstance unset, the
\* exported promise pending and its 'ready' listener registered
Init ==
    /\ nodeState = "new"
    /\ ipfsInstance = Undefined
    /\ promiseState = "pending"
    /\ held = FALSE
    /\ listeners = [e \in Events |-> <<>>]
    /\ emitLog = <<>>
    /\ cbLog = <<>>
    /\ nodeCalls = <<>>
    /\ puts = <<>>
    /\ outcome = [op |-> "none", kind |-> "none", error |-> NoError,
                  value |-> Undefined, args |-> <<>>]
    /\ opCount = 0
    /\ direct = FALSE

(* ------------------------- the wrapped node ---------------------------- *)
\* emitter.emit(ev, val): the event is logged and every listener registered
\* for ev runs, in registration order; each listener is one of the facade's
\* arrow functions and calls the caller's callback
Invocations(ev, val) ==
    [i \in 1..Len(listeners[ev]) |->
        [reg  |-> listeners[ev][i].reg,
         cb   |-> listeners[ev][i].cb,
         arg  |-> ListenerArg(listeners[ev][i].op, val),
         emit |-> Len(emitLog) + 1]]

Emit(ev, val) ==
    /\ Len(emitLog) < MaxEmits
    /\ emitLog' = Append(emitLog,
                         [ev |-> ev, val |-> val, boot |-> promiseState = "pending"])
    /\ cbLog' = cbLog \o Invocations(ev, val)

\* boot of `new IPFS()`: the repo is initialised and 'init' is emitted
NodeInit ==
    /\ nodeState = "new"
    /\ nodeState' = "inited"
    /\ Emit("init", Undefined)
    /\ UNCHANGED <<direct, ipfsInstance, promiseState, held, listeners, nodeCalls,
                   puts, outcome, opCount>>

\* boot: the node starts and 'start' is emitted
NodeBootStart ==
    /\ nodeState = "inited"
    /\ nodeState' = "booted"
    /\ Emit("start", Undefined)
    /\ UNCHANGED <<direct, ipfsInstance, promiseState, held, listeners, nodeCalls,
                   puts, outcome, opCount>>

\* boot fails: 'error' is emitted and 'ready' never is
NodeBootError ==
    /\ nodeState \in {"new", "inited"}
    /\ nodeState' = "failed"
    /\ \E e \in NodeErrors : Emit("error", e)
    /\ UNCHANGED <<direct, ipfsInstance, promiseState, held, listeners, nodeCalls,
                   puts, outcome, opCount>>

\* ipfsNode.on('ready', () => { ipfsInstance = ipfsNode; resolve(instance); })
NodeReady ==
    /\ nodeState = "booted"
    /\ nodeState' = "online"
    /\ ipfsInstance' = IpfsNode
    /\ promiseState' = "resolved"
    /\ UNCHANGED <<direct, held, listeners, emitLog, cbLog, nodeCalls, puts, outcome,
                   opCount>>

\* the caller's `then` on the exported promise runs and receives `instance`
CallerReceives ==
    /\ promiseState = "resolved"
    /\ ~held
    /\ held' = TRUE
    /\ UNCHANGED <<direct, nodeState, ipfsInstance, promiseState, listeners, emitLog,
                   cbLog, nodeCalls, puts, outcome, opCount, direct>>

\* a stop() that was forwarded completes: 'stop' is emitted
NodeStopped ==
    /\ nodeState = "stopping"
    /\ nodeState' = "offline"
    /\ Emit("stop", Undefined)
    /\ UNCHANGED <<direct, ipfsInstance, promiseState, held, listeners, nodeCalls,
                   puts, outcome, opCount>>

\* a start() that was forwarded completes: 'start' is emitted
NodeStarted ==
    /\ nodeState = "starting"
    /\ nodeState' = "online"
    /\ Emit("start", Undefined)
    /\ UNCHANGED <<direct, ipfsInstance, promiseState, held, listeners, nodeCalls,
                   puts, outcome, opCount>>

\* the running node hits an error and emits 'error'
NodeError ==
    /\ nodeState \in {"online", "stopping", "offline", "starting"}
    /\ \E e \in NodeErrors : Emit("error", e)
    /\ UNCHANGED <<direct, nodeState, ipfsInstance, promiseState, held, listeners,
                   nodeCalls, puts, outcome, opCount>>

\* the node completes a dag.put it was handed, once, with (err, cid).
\* putObject: the awaited promise settles and so does the returned one.
\* putObjectSync: the arrow function (err, cid) => { callback(err, cid); }
\* runs; calling a callback that is not a function throws a TypeError.
Settle(p, r) ==
    IF p.via = "putObject"
    THEN [p EXCEPT !.state = "settled", !.result = r,
                   !.reports = Append(@, AsyncReport(r.err, r.cid))]
    ELSE IF p.callback.type = "function"
    THEN [p EXCEPT !.state = "settled", !.result = r,
                   !.reports = Append(@, SyncReport(r.err, r.cid))]
    ELSE [p EXCEPT !.state = "settled", !.result = r, !.thrown = TypeError]

NodeCompletePut ==
    /\ \E i \in 1..Len(puts) : \E r \in PutResults :
          /\ puts[i].state = "pending"
          /\ puts' = [puts EXCEPT ![i] = Settle(puts[i], r)]
    /\ UNCHANGED <<direct, nodeState, ipfsInstance, promiseState, held, listeners,
                   emitLog, cbLog, nodeCalls, outcome, opCount>>

(* ----------------------------- the facade ------------------------------ *)
Outcome(op, args, kind, error, value) ==
    [op |-> op, kind |-> kind, error |-> error, value |-> value, args |-> args]

Bool(b) == [type |-> "boolean", v |-> IF b THEN "true" ELSE "false"]

\* a method can be invoked by whoever has the object `instance`: a caller the
\* exported promise handed it to, or code that invokes the methods directly
CanInvoke == held \/ direct

\* a dag.put as handed to the node
Put(via, args, params, callback) ==
    [via |-> via, args |-> args, obj |-> params.obj, config |-> params.config,
     callback |-> callback, state |-> "pending",
     result |-> [err |-> Undefined, cid |-> Undefined],
     reports |-> <<>>, thrown |-> NoError]

\* start() { validateIPFSConnected(ipfsInstance); ipfsInstance.start(); }
start ==
    /\ CanInvoke /\ opCount < MaxOps
    /\ opCount' = opCount + 1
    /\ IF validateIPFSConnected(ipfsInstance)
       THEN /\ nodeCalls' = Append(nodeCalls, "start")
            /\ nodeState' = IF nodeState = "offline" THEN "starting" ELSE nodeState
            /\ outcome' = Outcome("start", <<>>, "returned", NoError, Undefined)
       ELSE /\ outcome' = Outcome("start", <<>>, "threw", NotReady, Undefined)
            /\ UNCHANGED <<nodeCalls, nodeState>>
    /\ UNCHANGED <<direct, ipfsInstance, promiseState, held, listeners, emitLog, cbLog,
                   puts>>

\* a stop() that also clears the handle
stopClearsHandle ==
    /\ CanInvoke /\ opCount < MaxOps
    /\ opCount' = opCount + 1
    /\ IF validateIPFSConnected(ipfsInstance)
       THEN /\ nodeCalls' = Append(nodeCalls, "stop")
            /\ nodeState' = IF nodeState = "online" THEN "stopping" ELSE nodeState
            /\ outcome' = Outcome("stop", <<>>, "returned", NoError, Undefined)
            /\ ipfsInstance' = Undefined
       ELSE /\ outcome' = Outcome("stop", <<>>, "threw", NotReady, Undefined)
            /\ UNCHANGED <<nodeCalls, nodeState, ipfsInstance>>
    /\ UNCHANGED <<direct, promiseState, held, listeners, emitLog, cbLog, puts>>

\* stop() { validateIPFSConnected(ipfsInstance); ipfsInstance.stop(); }
stop ==
    /\ CanInvoke /\ opCount < MaxOps
    /\ opCount' = opCount + 1
    /\ IF validateIPFSConnected(ipfsInstance)
       THEN /\ nodeCalls' = Append(nodeCalls, "stop")
            /\ nodeState' = IF nodeState = "online" THEN "stopping" ELSE nodeState
            /\ outcome' = Outcome("stop", <<>>, "returned", NoError, Undefined)
       ELSE /\ outcome' = Outcome("stop", <<>>, "threw", NotReady, Undefined)
            /\ UNCHANGED <<nodeCalls, nodeState>>
    /\ UNCHANGED <<direct, ipfsInstance, promiseState, held, listeners, emitLog, cbLog,
                   puts>>

\* isOnline() { validateIPFSConnected(ipfsInstance); return ipfsInstance.isOnline(); }
isOnline ==
    /\ CanInvoke /\ opCount < MaxOps
    /\ opCount' = opCount + 1
    /\ IF validateIPFSConnected(ipfsInstance)
       THEN /\ nodeCalls' = Append(nodeCalls, "isOnline")
            /\ outcome' = Outcome("isOnline", <<>>, "returned", NoError,
                                  Bool(nodeState = "online"))
       ELSE /\ outcome' = Outcome("isOnline", <<>>, "threw", NotReady, Undefined)
            /\ UNCHANGED nodeCalls
    /\ UNCHANGED <<direct, nodeState, ipfsInstance, promiseState, held, listeners,
                   emitLog, cbLog, puts>>

\* async putObject(dagNode, options = DEFAULT_DAG_CONFIG): a throw inside an
\* async function rejects the promise it returns
putObject ==
    /\ CanInvoke /\ opCount < MaxOps
    /\ opCount' = opCount + 1
    /\ \E args \in AsyncArgLists :
          IF validateIPFSConnected(ipfsInstance)
          THEN /\ nodeCalls' = Append(nodeCalls, "dag.put")
               /\ puts' = Append(puts, Put("putObject", args,
                                           PutObjectParams(args), Undefined))
               /\ outcome' = Outcome("putObject", args, "promise", NoError,
                                     Undefined)
          ELSE /\ outcome' = Outcome("putObject", args, "rejected", NotReady,
                                     Undefined)
               /\ UNCHANGED <<nodeCalls, puts>>
    /\ UNCHANGED <<direct, nodeState, ipfsInstance, promiseState, held, listeners,
                   emitLog, cbLog>>

\* putObjectSync(): the argument-count check, the two argument-count blocks,
\* validateIPFSConnected, then ipfsInstance.dag.put(obj, config, listener)
putObjectSync ==
    /\ CanInvoke /\ opCount < MaxOps
    /\ opCount' = opCount + 1
    /\ \E args \in SyncArgLists :
          IF Len(args) = 0
          THEN /\ outcome' = Outcome("putObjectSync", args, "threw", NoObject,
                                     Undefined)
               /\ UNCHANGED <<nodeCalls, puts>>
          ELSE IF validateIPFSConnected(ipfsInstance)
          THEN /\ nodeCalls' = Append(nodeCalls, "dag.put")
               /\ puts' = Append(puts, Put("putObjectSync", args,
                                           PutObjectSyncParams(args),
                                           PutObjectSyncParams(args).callback))
               /\ outcome' = Outcome("putObjectSync", args, "returned", NoError,
                                     Undefined)
          ELSE /\ outcome' = Outcome("putObjectSync", args, "threw", NotReady,
                                     Undefined)
               /\ UNCHANGED <<nodeCalls, puts>>
    /\ UNCHANGED <<direct, nodeState, ipfsInstance, promiseState, held, listeners,
                   emitLog, cbLog>>

\* onX(callback) { validateIPFSConnected(ipfsInstance);
\*                 ipfsInstance.on(event, listener calling callback); }
Register(op, cb) ==
    /\ CanInvoke /\ opCount < MaxOps
    /\ opCount' = opCount + 1
    /\ IF validateIPFSConnected(ipfsInstance)
       THEN /\ nodeCalls' = Append(nodeCalls, "on")
            /\ listeners' = [listeners EXCEPT ![EventOf(op)] =
                               AddListener(@, [op |-> op, cb |-> cb,
                                               reg |-> opCount + 1,
                                               at |-> Len(emitLog)])]
            /\ outcome' = Outcome(op, <<cb>>, "returned", NoError, Undefined)
       ELSE /\ outcome' = Outcome(op, <<cb>>, "threw", NotReady, Undefined)
            /\ UNCHANGED <<nodeCalls, listeners>>
    /\ UNCHANGED <<direct, nodeState, ipfsInstance, promiseState, held, emitLog, cbLog,
                   puts>>

onError == \E cb \in Callbacks : Register("onError", cb)

onInit == \E cb \in Callbacks : Register("onInit", cb)

onStart == \E cb \in Callbacks : Register("onStart", cb)

onStop == \E cb \in Callbacks : Register("onStop", cb)

\* a facade with a get method that forwards to the node's dag.get
getForwarded ==
    /\ CanInvoke /\ opCount < MaxOps
    /\ opCount' = opCount + 1
    /\ \E i \in 1..Len(puts) :
          /\ puts[i].state = "settled"
          /\ puts[i].result.cid \in Cids
          /\ Len(puts[i].reports) > 0
          /\ outcome' = Outcome("get", <<puts[i].result.cid>>, "returned",
                                NoError, puts[i].obj)
    /\ nodeCalls' = Append(nodeCalls, "dag.get")
    /\ UNCHANGED <<direct, nodeState, ipfsInstance, promiseState, held, listeners,
                   emitLog, cbLog, puts>>

\* instance.get(cid) with the cid a put reported: the object literal has no
\* `get` key, so the call is a call of undefined and throws a TypeError
get ==
    /\ CanInvoke /\ opCount < MaxOps
    /\ "get" \notin InstanceMethods
    /\ opCount' = opCount + 1
    /\ \E i \in 1..Len(puts) :
          /\ puts[i].state = "settled"
          /\ puts[i].result.cid \in Cids
          /\ Len(puts[i].reports) > 0
          /\ outcome' = Outcome("get", <<puts[i].result.cid>>, "threw",
                                TypeError, Undefined)
    /\ UNCHANGED <<direct, nodeState, ipfsInstance, promiseState, held, listeners,
                   emitLog, cbLog, nodeCalls, puts>>

(* --------------------------- specifications ---------------------------- *)
Next ==
    \/ NodeInit
    \/ NodeBootStart
    \/ NodeBootError
    \/ NodeReady
    \/ CallerReceives
    \/ NodeStopped
    \/ NodeStarted
    \/ NodeError
    \/ NodeCompletePut
    \/ start
    \/ stop
    \/ isOnline
    \/ putObject
    \/ putObjectSync
    \/ onError
    \/ onInit
    \/ onStart
    \/ onStop
    \/ get

\* the program: the facade reaches a caller only through the exported promise
Spec == Init /\ [][Next]_vars

\* the methods of `instance` exercised as a unit: they are invoked directly
\* from module load on, so they run against every value the closure variable
\* ipfsInstance takes, unset included
InitUnit ==
    /\ nodeState = "new"
    /\ ipfsInstance = Undefined
    /\ promiseState = "pending"
    /\ held = FALSE
    /\ listeners = [e \in Events |-> <<>>]
    /\ emitLog = <<>>
    /\ cbLog = <<>>
    /\ nodeCalls = <<>>
    /\ puts = <<>>
    /\ outcome = [op |-> "none", kind |-> "none", error |-> NoError,
                  value |-> Undefined, args |-> <<>>]
    /\ opCount = 0
    /\ direct = TRUE

SpecUnit == InitUnit /\ [][Next]_vars

(* ------------------------------ claims --------------------------------- *)
\* an invocation of a method of `instance` happens in this step
Invoked == opCount' # opCount /\ outcome'.op \in InstanceMethods

\* C1: a method invoked while the handle is unset (putObjectSync with no
\* argument aside) fails with the not-ready error, thrown, or for putObject as
\* a rejected promise, and it forwards no call to the node and registers no
\* listener on it.
C1_NotReadyGuard ==
    [][(/\ Invoked
        /\ ipfsInstance = Undefined
        /\ ~(outcome'.op = "putObjectSync" /\ Len(outcome'.args) = 0))
       => /\ outcome'.error = NotReady
          /\ outcome'.kind = IF outcome'.op = "putObject" THEN "rejected" ELSE "threw"
          /\ nodeCalls' = nodeCalls
          /\ puts' = puts
          /\ listeners' = listeners
          /\ nodeState' = nodeState]_vars

C1_Witness ==
    /\ ipfsInstance = Undefined
    /\ outcome.op = "putObject"
    /\ outcome.kind = "rejected"
    /\ outcome.error = NotReady

\* C2: a put whose caller omitted the options (putObject(node),
\* putObjectSync(node, callback)) reaches dag.put with exactly
\* {format: 'dag-cbor', hashAlg: 'sha3-512'}; a put whose caller supplied
\* options (putObject(node, opts), putObjectSync(node, opts, callback))
\* reaches dag.put with those options.
C2_DefaultOptions ==
    \A i \in 1..Len(puts) :
        LET p == puts[i] IN
        /\ (p.via = "putObject" /\ Len(p.args) = 1)
              => p.config = [type |-> "object", format |-> "dag-cbor",
                             hashAlg |-> "sha3-512"]
        /\ (p.via = "putObjectSync" /\ Len(p.args) = 2)
              => p.config = [type |-> "object", format |-> "dag-cbor",
                             hashAlg |-> "sha3-512"]
        /\ (p.via = "putObject" /\ Len(p.args) = 2 /\ p.args[2] # Undefined)
              => p.config = p.args[2]
        /\ (p.via = "putObjectSync" /\ Len(p.args) = 3)
              => p.config = p.args[2]

C2_Witness ==
    /\ Len(puts) = 2
    /\ puts[1].via = "putObjectSync" /\ Len(puts[1].args) = 3
    /\ puts[1].config \in Configs
    /\ puts[2].via = "putObject" /\ Len(puts[2].args) = 1
    /\ puts[2].config = DEFAULT_DAG_CONFIG

\* the documented call forms: putObject, and putObjectSync(node, [config], callback)
Documented(p) ==
    \/ p.via = "putObject"
    \/ p.via = "putObjectSync" /\ Len(p.args) \in {2, 3}

AllListeners == UNION {{listeners[e][i] : i \in 1..Len(listeners[e])} : e \in Events}

\* the node's emissions, each with its place in the log
Emissions == [k \in 1..Len(emitLog) |->
                [emit |-> k, ev |-> emitLog[k].ev, val |-> emitLog[k].val]]

\* the event each registration method stands for
ClaimedEvent(op) ==
    CASE op = "onError" -> "error"
      [] op = "onInit"  -> "init"
      [] op = "onStart" -> "start"
      [] op = "onStop"  -> "stop"

\* what the callback of registration l should have been invoked with: once per
\* emission of its event after the registration, with the error for onError
ExpectedBy(l) ==
    LET mine(x) == x.emit > l.at /\ x.ev = ClaimedEvent(l.op)
        sel == SelectSeq(Emissions, mine)
    IN  [i \in 1..Len(sel) |->
            [emit |-> sel[i].emit, cb |-> l.cb,
             arg |-> IF l.op = "onError" THEN sel[i].val ELSE Undefined]]

\* what the callback of registration l was invoked with
ReceivedBy(l) ==
    LET mine(x) == x.reg = l.reg
        sel == SelectSeq(cbLog, mine)
    IN  [i \in 1..Len(sel) |->
            [emit |-> sel[i].emit, cb |-> sel[i].cb, arg |-> sel[i].arg]]

\* C4: the callback registered with onInit, onStart, onStop or onError has
\* been invoked exactly once for each emission of 'init', 'start', 'stop' or
\* 'error' that followed the registration, with the emitted error for onError,
\* and for nothing else.
C4_PassThrough ==
    /\ \A l \in AllListeners : ReceivedBy(l) = ExpectedBy(l)
    /\ \A j \in 1..Len(cbLog) : \E l \in AllListeners : l.reg = cbLog[j].reg

C4_Witness ==
    \E l \in AllListeners :
        /\ l.op = "onError"
        /\ Len(ReceivedBy(l)) = 1
        /\ ReceivedBy(l)[1].arg \in NodeErrors
        /\ \E k \in 1..Len(emitLog) : k > l.at /\ emitLog[k].ev = "stop"

\* s is a prefix of t
IsPrefix(s, t) == Len(s) <= Len(t) /\ \A i \in 1..Len(s) : s[i] = t[i]

\* the registrations whose callbacks emission k invoked, in invocation order
InvokedAt(k) ==
    LET mine(x) == x.emit = k
        sel == SelectSeq(cbLog, mine)
    IN  [i \in 1..Len(sel) |-> sel[i].reg]

\* the registrations for the event of emission k made before it, in
\* registration order
RegisteredAt(k) ==
    LET mine(l) == l.at < k
        sel == SelectSeq(listeners[emitLog[k].ev], mine)
    IN  [i \in 1..Len(sel) |-> sel[i].reg]

\* C6: one emission invokes every callback registered for its event before it,
\* each once, in the order of registration; and a registration only appends to
\* an event's listeners, it never replaces or removes an earlier one.
C6_Subscribers ==
    /\ [](\A k \in 1..Len(emitLog) :
            /\ InvokedAt(k) = RegisteredAt(k)
            /\ \A i, j \in 1..Len(InvokedAt(k)) :
                  i < j => InvokedAt(k)[i] < InvokedAt(k)[j])
    /\ [][\A e \in Events :
            /\ IsPrefix(listeners[e], listeners'[e])
            /\ (Invoked /\ outcome'.kind = "returned" /\ outcome'.op \in ListenerOps
                  /\ ClaimedEvent(outcome'.op) = e)
               => Len(listeners'[e]) = Len(listeners[e]) + 1]_vars

C6_Witness ==
    \E k \in 1..Len(emitLog) :
        /\ Len(InvokedAt(k)) = 2
        /\ \E i, j \in 1..Len(cbLog) :
              /\ i < j
              /\ cbLog[i].emit = k /\ cbLog[j].emit = k
              /\ cbLog[i].cb # cbLog[j].cb

\* C5: a get through the facade of the CID a put reported returns the node
\* that was put.
C5_RoundTrip ==
    outcome.op = "get" =>
        /\ outcome.kind = "returned"
        /\ \E i \in 1..Len(puts) :
              /\ puts[i].result.cid = outcome.args[1]
              /\ outcome.value = puts[i].obj

\* C5 as amended: the facade forwards puts but has no get: a call of
\* instance.get with the CID a put reported throws a TypeError and forwards
\* nothing, and no call the facade forwards to the node is a get.
C5_NoGet ==
    /\ [](\A i \in 1..Len(nodeCalls) :
            nodeCalls[i] \in {"start", "stop", "isOnline", "dag.put", "on"})
    /\ [][(opCount' # opCount /\ outcome'.op = "get")
            => /\ outcome'.kind = "threw"
               /\ outcome'.error = TypeError
               /\ nodeCalls' = nodeCalls
               /\ puts' = puts]_vars

C5_Witness ==
    /\ outcome.op = "get"
    /\ outcome.error = TypeError
    /\ \E i \in 1..Len(puts) :
          /\ puts[i].via = "putObject"
          /\ puts[i].state = "settled"
          /\ outcome.args = <<puts[i].result.cid>>

\* C7: the callback of a listener registered with onInit, onStart or onError
\* has received every 'init', 'start' and 'error' event the node emitted
\* during its initial boot.
C7_BootEventsDelivered ==
    \A l \in AllListeners :
        \A k \in 1..Len(emitLog) :
            (emitLog[k].boot /\ emitLog[k].ev = ClaimedEvent(l.op)
               /\ l.op \in {"onInit", "onStart", "onError"})
            => \E j \in 1..Len(cbLog) : cbLog[j].reg = l.reg /\ cbLog[j].emit = k

C9_SyncArguments ==
    /\ \A i \in 1..Len(puts) :
          LET p == puts[i] IN
          p.via = "putObjectSync" =>
              /\ p.obj = p.args[1]
              /\ p.callback = p.args[Len(p.args)]
              /\ p.thrown = NoError
    /\ (outcome.op = "putObjectSync" /\ Len(outcome.args) = 0)
          => outcome.error = NoObject

\* C10: the handle is written only by the 'ready' handler, which sets it to
\* the node, and nothing clears or changes it afterwards; the promise is
\* resolved, and the facade held by a caller, only with the handle set; so no
\* invocation ends in the not-ready error, and every invocation other than
\* putObjectSync() is forwarded to the node, after a stop() too.
C10_HandleInvariant ==
    /\ [](/\ promiseState = "resolved" => ipfsInstance = IpfsNode
          /\ held => promiseState = "resolved"
          /\ outcome.error # NotReady)
    /\ [][/\ ipfsInstance' # ipfsInstance
             => /\ nodeState = "booted" /\ nodeState' = "online"
                /\ ipfsInstance = Undefined /\ ipfsInstance' = IpfsNode
          /\ (Invoked /\ ~(outcome'.op = "putObjectSync" /\ Len(outcome'.args) = 0))
             => Len(nodeCalls') = Len(nodeCalls) + 1]_vars

C10_Witness ==
    /\ nodeCalls = <<"stop", "dag.put">>
    /\ nodeState = "offline"
    /\ Len(puts) = 1

====
